---------------------------- MODULE Spec2Model ----------------------------
(***************************************************************************)
(* A model of milvus-swagger's specification cache and operation differ    *)
(* (utils/swagger.py) and of its checkpointed ingestion run                *)
(* (utils/milvus_db.py).                                                   *)
(*                                                                         *)
(* Python dicts are functions from their keys; a dict is iterated in the   *)
(* order of PathOrder / MethodOrder / FieldOrder (its insertion order).    *)
(* A JSON text is the sequence of the members json.dump writes, in that    *)
(* order; json.load folds the members back into a dict.                    *)
(***************************************************************************)
EXTENDS Integers, Sequences, FiniteSets, TLC

(***************************************************************************)
(* Bounds of the inputs.                                                   *)
(***************************************************************************)
\* The largest number of operations of a document handed to the cache/differ.
MaxOps == 2

PathOrder == <<"/a", "/b", "/c">>
MethodOrder == <<"get", "post">>
FieldOrder == <<"operationId", "description", "tags", "parameters", "responses">>

SeqRange(s) == {s[i] : i \in DOMAIN s}

\* dict.get's default, and the value of a field that is not there.
None == "<None>"

\* The operationId values of the inputs: absent, empty, and two names.
OperationIds == {None, "", "x", "y"}
Descriptions == {"d1", "d2"}

\* An operation object with the given operationId (None: no such key).
Operation(oid, desc) ==
    IF oid = None THEN [description |-> desc]
                  ELSE [operationId |-> oid, description |-> desc]

\* The operation objects of the inputs: every operationId value, and a second
\* description for an operation with an operationId and for one without.
Operations ==
    {Operation(oid, "d1") : oid \in OperationIds}
        \cup {Operation(oid, d) : oid \in {None, "x"}, d \in Descriptions}

\* The (path, method) places of the documents handed to the cache/differ:
\* two methods under one path, and a second path.
Slots == {<<"/a", "get">>, <<"/a", "post">>, <<"/b", "get">>}

\* The "paths" tree that holds operation ops[s] at each slot s of its domain.
PathsTree(ops) ==
    [p \in {s[1] : s \in DOMAIN ops} |->
        [m \in {s[2] : s \in {t \in DOMAIN ops : t[1] = p}} |-> ops[<<p, m>>]]]

\* The document {} (no "paths" key).
EmptyDict == [k \in {} |-> {}]

\* A specification document: {"paths": tree}.
Document(ops) == [paths |-> PathsTree(ops)]

SlotSets == {sl \in SUBSET Slots : Cardinality(sl) <= MaxOps}

Documents == UNION {{Document(ops) : ops \in [sl -> Operations]} : sl \in SlotSets}

\* What a caller may pass as a dict: a specification document, or {}.
Dicts == Documents \cup {EmptyDict}

(***************************************************************************)
(* Python helpers.                                                         *)
(***************************************************************************)
\* The keys of dict d in iteration order.
Keys(d, order) == SelectSeq(order, LAMBDA k : k \in DOMAIN d)

\* properties.get(key)
Get(d, key) == IF key \in DOMAIN d THEN d[key] ELSE None

\* Python truthiness of the value of properties.get("operationId")
Truthy(v) == v # None /\ v # ""

\* x in list
InList(x, list) == \E i \in DOMAIN list : list[i] = x

(***************************************************************************)
(* json.dump / json.load of a specification document.                      *)
(***************************************************************************)
\* A JSON object: the (key, value) members of dict d in the order written.
Members(d, order) ==
    LET ks == Keys(d, order)
    IN  [i \in 1..Len(ks) |-> [key |-> ks[i], value |-> d[ks[i]]]]

\* json.load of an object: the last member with a key wins.
LoadObject(members) ==
    [k \in {members[i].key : i \in DOMAIN members} |->
        LET last == CHOOSE i \in DOMAIN members :
                        /\ members[i].key = k
                        /\ \A j \in DOMAIN members : members[j].key = k => j <= i
        IN  members[last].value]

\* A JSON string.
DumpString(s) == <<"str", s>>
LoadString(t) == t[2]

DumpOperation(props) ==
    LET ms == Members(props, FieldOrder)
    IN  [i \in DOMAIN ms |-> [key |-> ms[i].key, value |-> DumpString(ms[i].value)]]

LoadOperation(text) ==
    LET d == LoadObject(text) IN [k \in DOMAIN d |-> LoadString(d[k])]

DumpMethods(methods) ==
    LET ms == Members(methods, MethodOrder)
    IN  [i \in DOMAIN ms |-> [key |-> ms[i].key, value |-> DumpOperation(ms[i].value)]]

LoadMethods(text) ==
    LET d == LoadObject(text) IN [k \in DOMAIN d |-> LoadOperation(d[k])]

DumpPaths(paths) ==
    LET ms == Members(paths, PathOrder)
    IN  [i \in DOMAIN ms |-> [key |-> ms[i].key, value |-> DumpMethods(ms[i].value)]]

LoadPaths(text) ==
    LET d == LoadObject(text) IN [k \in DOMAIN d |-> LoadMethods(d[k])]

\* json.dump(swagger_spec_dict, f): the text written.
json_dump(spec) ==
    LET ms == Members(spec, <<"paths">>)
    IN  [i \in DOMAIN ms |-> [key |-> ms[i].key, value |-> DumpPaths(ms[i].value)]]

\* json.load(f): the dict read.
json_load(text) ==
    LET d == LoadObject(text) IN [k \in DOMAIN d |-> LoadPaths(d[k])]

(***************************************************************************)
(* The differ, get_updated_operationIDs_from_cache, on the two dicts.      *)
(***************************************************************************)
\* updated_operationIDs.append(operationID) under "if operationID:"
AppendIfId(updated, operationID) ==
    IF Truthy(operationID) THEN Append(updated, operationID) ELSE updated

\* ... under "if operationID and operationID not in updated_operationIDs:"
AppendIfNewId(updated, operationID) ==
    IF Truthy(operationID) /\ ~InList(operationID, updated)
    THEN Append(updated, operationID) ELSE updated

\* CheckIncoming without the comparison of the two operation objects.
CheckIncoming_NoCompare(updated, spec, cached, path, method) ==
    LET properties == spec["paths"][path][method]
        operationID == Get(properties, "operationId")
    IN  IF path \notin DOMAIN cached["paths"]
        THEN AppendIfId(updated, operationID)
        ELSE IF method \notin DOMAIN cached["paths"][path]
        THEN AppendIfId(updated, operationID)
        ELSE AppendIfNewId(updated, operationID)

\* CheckIncoming without the branch for a method the cached path has not.
CheckIncoming_SkipsNewMethod(updated, spec, cached, path, method) ==
    LET properties == spec["paths"][path][method]
        operationID == Get(properties, "operationId")
    IN  IF path \notin DOMAIN cached["paths"]
        THEN AppendIfId(updated, operationID)
        ELSE IF method \notin DOMAIN cached["paths"][path]
        THEN updated
        ELSE IF properties # cached["paths"][path][method]
        THEN AppendIfNewId(updated, operationID)
        ELSE updated

\* CheckIncoming without "if operationID:" for a new path or method.
CheckIncoming_NoIdCheck(updated, spec, cached, path, method) ==
    LET properties == spec["paths"][path][method]
        operationID == Get(properties, "operationId")
    IN  IF path \notin DOMAIN cached["paths"]
        THEN Append(updated, operationID)
        ELSE IF method \notin DOMAIN cached["paths"][path]
        THEN Append(updated, operationID)
        ELSE IF properties # cached["paths"][path][method]
        THEN AppendIfNewId(updated, operationID)
        ELSE updated

\* One (path, method) of the incoming document: the body of the first loop.
CheckIncoming(updated, spec, cached, path, method) ==
    LET properties == spec["paths"][path][method]
        operationID == Get(properties, "operationId")
    IN  IF path \notin DOMAIN cached["paths"]
        THEN AppendIfId(updated, operationID)
        ELSE IF method \notin DOMAIN cached["paths"][path]
        THEN AppendIfId(updated, operationID)
        ELSE IF properties # cached["paths"][path][method]
        THEN AppendIfNewId(updated, operationID)
        ELSE updated

\* CheckCached without "not in updated_operationIDs" for a changed operation.
CheckCached_NoDedup(updated, spec, cached, path, method) ==
    LET properties == cached["paths"][path][method]
        operationID == Get(properties, "operationId")
    IN  IF path \notin DOMAIN spec["paths"]
        THEN AppendIfNewId(updated, operationID)
        ELSE IF method \notin DOMAIN spec["paths"][path]
        THEN AppendIfNewId(updated, operationID)
        ELSE IF properties # spec["paths"][path][method]
        THEN AppendIfId(updated, operationID)
        ELSE updated

\* CheckCached that looks only at the operations both documents have.
CheckCached_SkipsRemoved(updated, spec, cached, path, method) ==
    LET properties == cached["paths"][path][method]
        operationID == Get(properties, "operationId")
    IN  IF path \notin DOMAIN spec["paths"]
        THEN updated
        ELSE IF method \notin DOMAIN spec["paths"][path]
        THEN updated
        ELSE IF properties # spec["paths"][path][method]
        THEN AppendIfNewId(updated, operationID)
        ELSE updated

\* CheckCached that reports removed operations only, not changed ones.
CheckCached_RemovedOnly(updated, spec, cached, path, method) ==
    LET properties == cached["paths"][path][method]
        operationID == Get(properties, "operationId")
    IN  IF path \notin DOMAIN spec["paths"]
        THEN AppendIfNewId(updated, operationID)
        ELSE IF method \notin DOMAIN spec["paths"][path]
        THEN AppendIfNewId(updated, operationID)
        ELSE updated

\* One (path, method) of the cached document: the body of the second loop.
CheckCached(updated, spec, cached, path, method) ==
    LET properties == cached["paths"][path][method]
        operationID == Get(properties, "operationId")
    IN  IF path \notin DOMAIN spec["paths"]
        THEN AppendIfNewId(updated, operationID)
        ELSE IF method \notin DOMAIN spec["paths"][path]
        THEN AppendIfNewId(updated, operationID)
        ELSE IF properties # spec["paths"][path][method]
        THEN AppendIfNewId(updated, operationID)
        ELSE updated

\* The (path, method) pairs of a document in the order the loops visit them.
RECURSIVE Enumerate(_, _)
Enumerate(tree, paths) ==
    IF paths = <<>> THEN <<>>
    ELSE LET path == Head(paths)
             ms == Keys(tree[path], MethodOrder)
         IN  [i \in 1..Len(ms) |-> <<path, ms[i]>>] \o Enumerate(tree, Tail(paths))

Endpoints(doc) == Enumerate(doc["paths"], Keys(doc["paths"], PathOrder))

HasPaths(doc) == "paths" \in DOMAIN doc

\* The (path, method) pairs of a document, as a set.
EndpointSet(doc) == IF HasPaths(doc) THEN SeqRange(Endpoints(doc)) ELSE {}

OperationAt(doc, e) == doc["paths"][e[1]][e[2]]
OperationIdAt(doc, e) == Get(OperationAt(doc, e), "operationId")

RECURSIVE IncomingLoop(_, _, _, _)
IncomingLoop(updated, spec, cached, todo) ==
    IF todo = <<>> THEN updated
    ELSE IncomingLoop(CheckIncoming(updated, spec, cached, Head(todo)[1], Head(todo)[2]),
                      spec, cached, Tail(todo))

RECURSIVE CachedLoop(_, _, _, _)
CachedLoop(updated, spec, cached, todo) ==
    IF todo = <<>> THEN updated
    ELSE CachedLoop(CheckCached(updated, spec, cached, Head(todo)[1], Head(todo)[2]),
                    spec, cached, Tail(todo))

\* Whether a subscript ["paths"] of the function raises KeyError: the first
\* loop reads swagger_spec_dict["paths"], and cached_spec["paths"] once it has
\* a path to look up; the second loop reads cached_spec["paths"].
DifferRaisesKeyError(spec, cached) ==
    "paths" \notin DOMAIN spec \/ "paths" \notin DOMAIN cached

\* The list the function returns when it raises nothing.
UpdatedOperationIDs(spec, cached) ==
    CachedLoop(IncomingLoop(<<>>, spec, cached, Endpoints(spec)),
               spec, cached, Endpoints(cached))

(***************************************************************************)
(* State of the cache and of the last call on it.                          *)
(***************************************************************************)
VARIABLES
    cache_dir,          \* whether the cache directory exists
    cache_file,         \* the file swagger_cache.json: [exists, valid, text]
    cached_spec_dict,   \* the dict cache_swagger wrote there last (history)
    swagger_spec_dict,  \* the dict given to the last call
    ret                 \* what the last call did: [fn, raised, value, ids]

cacheVars == <<cache_dir, cache_file, cached_spec_dict, swagger_spec_dict, ret>>

\* State of the ingestion runs.
VARIABLES
    swagger_spec,         \* the specification to ingest
    milvus_vectorstore,   \* the store: record id -> record
    checkpoint_file,      \* the checkpoint file: [exists, valid, text]
    log_files,            \* the archived checkpoint files, oldest first
    processed_endpoints,  \* the run's ledger: endpoint key -> entry
    documents,            \* the ids of the run's documents
    resume,               \* the run's resume argument
    pc,                   \* where the run is; "idle" between runs
    pos,                  \* the place in the enumeration the loop is at
    outcome,              \* how the last run ended
    runs,                 \* runs started so far (the clock of processed_at)
    loaded,               \* history: the keys loaded from the checkpoint
    attempted,            \* history: keys whose try block the run entered
    upserted,             \* history: keys the store accepted in the run
    completed,            \* history: keys whose processing the run finished
    failure,              \* history: the step of the run that raised, if any
    prev,                 \* history: the run before (outcome, targets, stored)
                          \* and the files when this one started (logs,
                          \* checkpoint, corrupt)
    database,             \* whether the Milvus database db_name exists
    command               \* history: the last create_database command

runVars == <<processed_endpoints, documents, resume, pc, pos, outcome, runs>>
fileVars == <<milvus_vectorstore, checkpoint_file, log_files>>
histVars == <<loaded, attempted, upserted, completed, failure, prev>>
cmdVars == <<database, command>>
ingestVars == <<swagger_spec, runVars, fileVars, histVars, cmdVars>>
vars == <<cacheVars, ingestVars>>

NoFile == [exists |-> FALSE, valid |-> FALSE, text |-> <<>>]

Ret(fn, raised, value, ids) == [fn |-> fn, raised |-> raised, value |-> value, ids |-> ids]

\* No query has been made yet: a query writes no file, so every call that
\* could follow one starts from a state that is reached without it.
NoQueryYet == ret.fn \in {"", "cache_swagger"}

\* cache_swagger(swagger_spec_dict, cache_dir)
cache_swagger(spec) ==
    /\ NoQueryYet
    /\ cache_dir' = TRUE
    /\ cache_file' = [exists |-> TRUE, valid |-> TRUE, text |-> json_dump(spec)]
    /\ cached_spec_dict' = spec
    /\ swagger_spec_dict' = spec
    /\ ret' = Ret("cache_swagger", "", TRUE, <<>>)
    /\ UNCHANGED ingestVars

\* check_against_cache comparing the keys of the two dicts only.
check_against_cache_KeysOnly(spec) ==
    /\ NoQueryYet
    /\ swagger_spec_dict' = spec
    /\ IF ~cache_file.exists
       THEN ret' = Ret("check_against_cache", "ValueError", FALSE, <<>>)
       ELSE IF ~cache_file.valid
       THEN ret' = Ret("check_against_cache", "JSONDecodeError", FALSE, <<>>)
       ELSE LET cached_spec == json_load(cache_file.text)
            IN  ret' = Ret("check_against_cache", "", DOMAIN spec = DOMAIN cached_spec, <<>>)
    /\ UNCHANGED <<cache_dir, cache_file, cached_spec_dict, ingestVars>>

\* check_against_cache(swagger_spec_dict, cached_spec_path)
check_against_cache(spec) ==
    /\ NoQueryYet
    /\ swagger_spec_dict' = spec
    /\ IF ~cache_file.exists
       THEN ret' = Ret("check_against_cache", "ValueError", FALSE, <<>>)
       ELSE IF ~cache_file.valid
       THEN ret' = Ret("check_against_cache", "JSONDecodeError", FALSE, <<>>)
       ELSE LET cached_spec == json_load(cache_file.text)
            IN  ret' = Ret("check_against_cache", "", spec = cached_spec, <<>>)
    /\ UNCHANGED <<cache_dir, cache_file, cached_spec_dict, ingestVars>>

\* The differ taking a cache file that does not exist for an empty cache.
get_updated_operationIDs_from_cache_NoExistsCheck(spec) ==
    /\ NoQueryYet
    /\ swagger_spec_dict' = spec
    /\ IF ~cache_file.exists
       THEN ret' = Ret("get_updated_operationIDs_from_cache", "", TRUE, <<>>)
       ELSE IF ~cache_file.valid
       THEN ret' = Ret("get_updated_operationIDs_from_cache", "JSONDecodeError", FALSE, <<>>)
       ELSE LET cached_spec == json_load(cache_file.text)
            IN  IF DifferRaisesKeyError(spec, cached_spec)
                THEN ret' = Ret("get_updated_operationIDs_from_cache", "KeyError", FALSE, <<>>)
                ELSE ret' = Ret("get_updated_operationIDs_from_cache", "", TRUE,
                                UpdatedOperationIDs(spec, cached_spec))
    /\ UNCHANGED <<cache_dir, cache_file, cached_spec_dict, ingestVars>>

\* get_updated_operationIDs_from_cache(swagger_spec_dict, cached_spec_path)
get_updated_operationIDs_from_cache(spec) ==
    /\ NoQueryYet
    /\ swagger_spec_dict' = spec
    /\ IF ~cache_file.exists
       THEN ret' = Ret("get_updated_operationIDs_from_cache", "ValueError", FALSE, <<>>)
       ELSE IF ~cache_file.valid
       THEN ret' = Ret("get_updated_operationIDs_from_cache", "JSONDecodeError", FALSE, <<>>)
       ELSE LET cached_spec == json_load(cache_file.text)
            IN  IF DifferRaisesKeyError(spec, cached_spec)
                THEN ret' = Ret("get_updated_operationIDs_from_cache", "KeyError", FALSE, <<>>)
                ELSE ret' = Ret("get_updated_operationIDs_from_cache", "", TRUE,
                                UpdatedOperationIDs(spec, cached_spec))
    /\ UNCHANGED <<cache_dir, cache_file, cached_spec_dict, ingestVars>>

InitCache ==
    /\ cache_dir = FALSE
    /\ cache_file = NoFile
    /\ cached_spec_dict = EmptyDict
    /\ swagger_spec_dict = EmptyDict
    /\ ret = Ret("", "", FALSE, <<>>)

NextCache ==
    \/ \E spec \in Dicts : cache_swagger(spec)
    \/ \E spec \in Dicts : check_against_cache(spec)
    \/ \E spec \in Dicts : get_updated_operationIDs_from_cache(spec)

(***************************************************************************)
(* The ingestion run, ingest_swagger (utils/milvus_db.py).                 *)
(***************************************************************************)
\* The most operations of an ingested specification, and the most runs.
MaxEndpoints == 5
MaxRuns == 2

\* "Save checkpoint periodically": len(processed_endpoints) % 5 == 0
CheckpointEvery == 5

\* All (path, method) places in the order a document is iterated.
RECURSIVE AllSlots(_)
AllSlots(paths) ==
    IF paths = <<>> THEN <<>>
    ELSE [i \in 1..Len(MethodOrder) |-> <<Head(paths), MethodOrder[i]>>]
         \o AllSlots(Tail(paths))

Min(a, b) == IF a < b THEN a ELSE b

\* A well-formed operation, with every field the run reads.
FullOperation(oid) ==
    [operationId |-> oid, description |-> "d1", tags |-> "t",
     parameters |-> "p", responses |-> "r"]

Without(props, field) == [k \in DOMAIN props \ {field} |-> props[k]]

\* The document of n operations "op1".."opn" in which operation number bad
\* (if any) lacks the given field and, with dup, operation 2 has the
\* operationId of operation 1.
IngestDocument(n, bad, field, dup) ==
    LET slots == SubSeq(AllSlots(PathOrder), 1, Min(n, Len(AllSlots(PathOrder))))
        oid(i) == IF dup /\ i = 2 THEN "op1" ELSE "op" \o ToString(i)
        op(i) == IF i = bad THEN Without(FullOperation(oid(i)), field)
                 ELSE FullOperation(oid(i))
        ops == [s \in SeqRange(slots) |->
                   op(CHOOSE i \in DOMAIN slots : slots[i] = s)]
    IN  Document(ops)

IngestDocuments ==
    {IngestDocument(n, bad, field, dup) :
        n \in 0..MaxEndpoints, bad \in 0..MaxEndpoints,
        field \in {"description", "operationId", "responses"}, dup \in BOOLEAN}

\* endpoint_key = f"{method}:{path}"
EndpointKey(e) == e[2] \o ":" \o e[1]

\* The order in which the keys of a ledger are written: that of the places.
KeyOrder == [i \in DOMAIN AllSlots(PathOrder) |-> EndpointKey(AllSlots(PathOrder)[i])]

\* uuid.UUID(md5(operationId).hexdigest())
EndpointUuid(oid) == <<"md5", oid>>

\* method.upper()
Upper(method) == IF method = "get" THEN "GET" ELSE IF method = "post" THEN "POST" ELSE method

\* d[k] = v
Put(d, k, v) == [x \in DOMAIN d \cup {k} |-> IF x = k THEN v ELSE d[x]]

EmptyLedger == [k \in {} |-> {}]

\* json.dump(processed_endpoints, f)
DumpEntry(entry) ==
    <<[key |-> "uuid", value |-> DumpString(entry.uuid)],
      [key |-> "processed_at", value |-> DumpString(entry.processed_at)]>>

DumpLedger(ledger) ==
    LET ms == Members(ledger, KeyOrder)
    IN  [i \in DOMAIN ms |-> [key |-> ms[i].key, value |-> DumpEntry(ms[i].value)]]

\* json.load(f) of a checkpoint file
LoadEntry(text) ==
    LET d == LoadObject(text) IN [k \in DOMAIN d |-> LoadString(d[k])]

LoadLedger(text) ==
    LET d == LoadObject(text) IN [k \in DOMAIN d |-> LoadEntry(d[k])]

NoCheckpoint == [exists |-> FALSE, valid |-> FALSE, text |-> <<>>]

\* with open(checkpoint_file, 'w') as f: json.dump(processed_endpoints, f)
Written(ledger) == [exists |-> TRUE, valid |-> TRUE, text |-> DumpLedger(ledger)]

\* A checkpoint file truncated by open(..., 'w') and not written to the end.
Truncated == [exists |-> TRUE, valid |-> FALSE, text |-> <<>>]

\* The ledger json.load reads from the file; none if it cannot be parsed.
FileLedger(file) ==
    IF file.exists /\ file.valid THEN LoadLedger(file.text) ELSE EmptyLedger

\* The store with no record: the collection is not there, or is empty.
EmptyStore == [k \in {} |-> {}]

\* checkpoint_file's default, "swagger_ingestion_progress.json": the one
\* checkpoint file of the model; any other path names no file.
DefaultCheckpoint == "swagger_ingestion_progress.json"
CheckpointOptions == {None, DefaultCheckpoint, "missing.json"}

\* How resolve_swagger(swagger_url) ends.
Resolutions == {"ok", "unreachable", "invalid", "unresolvable"}

\* No command has been given yet.
NoCommand ==
    [resolution |-> "", option |-> None, prompted |-> FALSE, answer |-> FALSE,
     dropped |-> FALSE, recorded |-> {},
     store |-> EmptyStore, checkpoint |-> NoCheckpoint, cache |-> NoFile]

EndpointAt(i) == Endpoints(swagger_spec)[i]
CurrentKey == EndpointKey(EndpointAt(pos))
CurrentProperties == OperationAt(swagger_spec, EndpointAt(pos))

\* The keys of the operations a run that starts with this ledger will process.
Targets(r, ledger) ==
    {EndpointKey(e) : e \in {f \in EndpointSet(swagger_spec) :
                                 ~(r /\ EndpointKey(f) \in DOMAIN ledger)}}


\* What a starting run notes of the run before it and of the files it finds.
RunBefore ==
    [outcome |-> outcome,
     targets |-> Targets(resume, [k \in loaded |-> TRUE]),
     stored |-> upserted,
     logs |-> Len(log_files),
     checkpoint |-> checkpoint_file.exists,
     corrupt |-> checkpoint_file.exists /\ ~checkpoint_file.valid]

\* StartRun without the try around json.load: a checkpoint file that cannot
\* be parsed ends the run with the decoder's exception.
StartRun_NoTry(r) ==
    /\ runs' = runs + 1
    /\ resume' = r
    /\ processed_endpoints' = IF r THEN FileLedger(checkpoint_file) ELSE EmptyLedger
    /\ documents' = <<>>
    /\ pos' = 1
    /\ IF r /\ checkpoint_file.exists /\ ~checkpoint_file.valid
       THEN pc' = "idle" /\ outcome' = "raised"
       ELSE pc' = "loop" /\ outcome' = "running"
    /\ loaded' = IF r THEN DOMAIN FileLedger(checkpoint_file) ELSE {}
    /\ attempted' = {}
    /\ upserted' = {}
    /\ completed' = {}
    /\ failure' = ""
    /\ prev' = RunBefore

\* Lines 78-102: the checkpoint is loaded when resume is set and the file
\* exists (a file that cannot be parsed leaves the ledger empty), the
\* operations to process are counted, and the loop starts.
StartRun(r) ==
    /\ runs' = runs + 1
    /\ resume' = r
    /\ processed_endpoints' = IF r THEN FileLedger(checkpoint_file) ELSE EmptyLedger
    /\ documents' = <<>>
    /\ pos' = 1
    /\ pc' = "loop"
    /\ outcome' = "running"
    /\ loaded' = IF r THEN DOMAIN FileLedger(checkpoint_file) ELSE {}
    /\ attempted' = {}
    /\ upserted' = {}
    /\ completed' = {}
    /\ failure' = ""
    /\ prev' = RunBefore

\* ingest_swagger(swagger_spec, milvus_vectorstore, ..., resume=r), called on
\* the default checkpoint file.
ingest_swagger(r) ==
    /\ pc = "idle"
    /\ runs < MaxRuns
    /\ StartRun(r)
    /\ UNCHANGED <<cacheVars, cmdVars, swagger_spec, fileVars>>

\* NextEndpoint without the skip of the operations already in the ledger.
NextEndpoint_NoSkip ==
    /\ pc = "loop"
    /\ pos <= Len(Endpoints(swagger_spec))
    /\ pc' = "summarize"
    /\ attempted' = attempted \cup {CurrentKey}
    /\ UNCHANGED <<cacheVars, cmdVars, swagger_spec, processed_endpoints, documents, resume, pos,
                   outcome, runs, fileVars, loaded, upserted, completed, failure, prev>>

\* Lines 104-112: the next (path, method); one already in the ledger is
\* skipped when resuming, any other enters the try block.
NextEndpoint ==
    /\ pc = "loop"
    /\ pos <= Len(Endpoints(swagger_spec))
    /\ IF resume /\ CurrentKey \in DOMAIN processed_endpoints
       THEN /\ pos' = pos + 1
            /\ UNCHANGED <<pc, attempted>>
       ELSE /\ pc' = "summarize"
            /\ attempted' = attempted \cup {CurrentKey}
            /\ UNCHANGED pos
    /\ UNCHANGED <<cacheVars, cmdVars, swagger_spec, processed_endpoints, documents, resume, outcome, runs,
                   fileVars, loaded, upserted, completed, failure, prev>>

\* An exception in the try block: control goes to the except clause.
ToExcept(step) ==
    /\ pc' = "except"
    /\ failure' = step
    /\ UNCHANGED <<cacheVars, cmdVars, swagger_spec, processed_endpoints, documents, resume, pos,
                   outcome, runs, fileVars, loaded, attempted, upserted, completed, prev>>

\* Lines 117-124: properties['description'] is read (KeyError if there is
\* none) and the summary chain invoked, which may raise.
Summarize ==
    /\ pc = "summarize"
    /\ IF "description" \notin DOMAIN CurrentProperties
       THEN ToExcept("field")
       ELSE \E ok \in BOOLEAN :
              IF ok
              THEN /\ pc' = "build"
                   /\ UNCHANGED <<cacheVars, cmdVars, swagger_spec, processed_endpoints, documents, resume,
                                  pos, outcome, runs, fileVars, histVars>>
              ELSE ToExcept("summarize")

\* Lines 127-160: the id and the document are built; props['operationId'],
\* props['tags'], props['parameters'] and props['responses'] are read
\* (KeyError if one is not there).
Build ==
    /\ pc = "build"
    /\ IF {"operationId", "tags", "parameters", "responses"} \subseteq DOMAIN CurrentProperties
       THEN /\ pc' = "upsert"
            /\ UNCHANGED <<cacheVars, cmdVars, swagger_spec, processed_endpoints, documents, resume,
                           pos, outcome, runs, fileVars, histVars>>
       ELSE ToExcept("field")

\* CurrentDocument with the id made from the endpoint key.
CurrentDocument_IdFromKey ==
    [id |-> EndpointUuid(CurrentKey),
     method |-> Upper(EndpointAt(pos)[2]),
     path |-> EndpointAt(pos)[1],
     operationId |-> CurrentProperties["operationId"]]

\* The document of the current operation: its id and its metadata.
CurrentDocument ==
    [id |-> EndpointUuid(CurrentProperties["operationId"]),
     method |-> Upper(EndpointAt(pos)[2]),
     path |-> EndpointAt(pos)[1],
     operationId |-> CurrentProperties["operationId"]]

\* Upsert going on to the ledger entry when the store raised.
Upsert_IgnoresFailure ==
    /\ pc = "upsert"
    /\ \E ok \in BOOLEAN :
         IF ok
         THEN /\ milvus_vectorstore' =
                    Put(milvus_vectorstore, CurrentDocument.id, CurrentDocument)
              /\ documents' = Append(documents, CurrentDocument.id)
              /\ upserted' = upserted \cup {CurrentKey}
              /\ pc' = "record"
              /\ UNCHANGED <<cacheVars, cmdVars, swagger_spec, processed_endpoints, resume, pos, outcome,
                             runs, checkpoint_file, log_files, loaded, attempted,
                             completed, failure, prev>>
         ELSE /\ pc' = "record"
              /\ UNCHANGED <<cacheVars, cmdVars, swagger_spec, processed_endpoints, documents, resume,
                             pos, outcome, runs, fileVars, histVars>>

\* Lines 162-163: milvus_vectorstore.add_documents([doc], ids=[doc.id]),
\* which may raise; the store keeps one record per id.
Upsert ==
    /\ pc = "upsert"
    /\ \E ok \in BOOLEAN :
         IF ok
         THEN /\ milvus_vectorstore' =
                    Put(milvus_vectorstore, CurrentDocument.id, CurrentDocument)
              /\ documents' = Append(documents, CurrentDocument.id)
              /\ upserted' = upserted \cup {CurrentKey}
              /\ pc' = "record"
              /\ UNCHANGED <<cacheVars, cmdVars, swagger_spec, processed_endpoints, resume, pos, outcome,
                             runs, checkpoint_file, log_files, loaded, attempted,
                             completed, failure, prev>>
         ELSE ToExcept("store")

\* Record with the ledger keyed by operationId.
Record_KeyedByOperationId ==
    /\ pc = "record"
    /\ processed_endpoints' =
          Put(processed_endpoints, CurrentDocument.operationId,
              [uuid |-> CurrentDocument.id, processed_at |-> runs])
    /\ pc' = "checkpoint"
    /\ UNCHANGED <<cacheVars, cmdVars, swagger_spec, documents, resume, pos, outcome, runs, fileVars,
                   histVars>>

\* Lines 166-169: processed_endpoints[endpoint_key] = {uuid, processed_at}
Record ==
    /\ pc = "record"
    /\ processed_endpoints' =
          Put(processed_endpoints, CurrentKey,
              [uuid |-> CurrentDocument.id, processed_at |-> runs])
    /\ pc' = "checkpoint"
    /\ UNCHANGED <<cacheVars, cmdVars, swagger_spec, documents, resume, pos, outcome, runs, fileVars,
                   histVars>>

\* if len(processed_endpoints) % 5 == 0
AtCheckpoint(ledger) == Cardinality(DOMAIN ledger) % CheckpointEvery = 0

\* PeriodicCheckpoint saving every 10 entries, as its comment says.
PeriodicCheckpoint_Every10 ==
    /\ pc = "checkpoint"
    /\ checkpoint_file' = IF Cardinality(DOMAIN processed_endpoints) % 10 = 0
                          THEN Written(processed_endpoints) ELSE checkpoint_file
    /\ completed' = completed \cup {CurrentKey}
    /\ pos' = pos + 1
    /\ pc' = "loop"
    /\ UNCHANGED <<cacheVars, cmdVars, swagger_spec, processed_endpoints, documents, resume,
                   outcome, runs, milvus_vectorstore, log_files, loaded, attempted,
                   upserted, failure, prev>>

\* PeriodicCheckpoint counting only the entries recorded in this run.
PeriodicCheckpoint_CountsRun ==
    /\ pc = "checkpoint"
    /\ checkpoint_file' =
          IF Cardinality(DOMAIN processed_endpoints \ loaded) % CheckpointEvery = 0
          THEN Written(processed_endpoints) ELSE checkpoint_file
    /\ completed' = completed \cup {CurrentKey}
    /\ pos' = pos + 1
    /\ pc' = "loop"
    /\ UNCHANGED <<cacheVars, cmdVars, swagger_spec, processed_endpoints, documents, resume,
                   outcome, runs, milvus_vectorstore, log_files, loaded, attempted,
                   upserted, failure, prev>>

\* Lines 171-176 and 185: the periodic save, and on to the next operation.
PeriodicCheckpoint ==
    /\ pc = "checkpoint"
    /\ checkpoint_file' = IF AtCheckpoint(processed_endpoints)
                          THEN Written(processed_endpoints) ELSE checkpoint_file
    /\ completed' = completed \cup {CurrentKey}
    /\ pos' = pos + 1
    /\ pc' = "loop"
    /\ UNCHANGED <<cacheVars, cmdVars, swagger_spec, processed_endpoints, documents, resume, outcome, runs,
                   milvus_vectorstore, log_files, loaded, attempted, upserted, failure, prev>>

\* Except raising again without the save of the checkpoint.
Except_NoSave ==
    /\ pc = "except"
    /\ outcome' = "raised"
    /\ pc' = "idle"
    /\ UNCHANGED <<cacheVars, cmdVars, swagger_spec, processed_endpoints, documents, resume, pos,
                   runs, fileVars, histVars>>

\* Except going on to the next operation instead of raising again.
Except_Continue ==
    /\ pc = "except"
    /\ checkpoint_file' = Written(processed_endpoints)
    /\ pos' = pos + 1
    /\ pc' = "loop"
    /\ UNCHANGED <<cacheVars, cmdVars, swagger_spec, processed_endpoints, documents, resume,
                   outcome, runs, milvus_vectorstore, log_files, histVars>>

\* Lines 178-183: the except clause saves the checkpoint and raises again.
Except ==
    /\ pc = "except"
    /\ checkpoint_file' = Written(processed_endpoints)
    /\ outcome' = "raised"
    /\ pc' = "idle"
    /\ UNCHANGED <<cacheVars, cmdVars, swagger_spec, processed_endpoints, documents, resume, pos, runs,
                   milvus_vectorstore, log_files, histVars>>

\* FinalSave without the write of the ledger.
FinalSave_NoWrite ==
    /\ pc = "loop"
    /\ pos > Len(Endpoints(swagger_spec))
    /\ pc' = "archive"
    /\ UNCHANGED <<cacheVars, cmdVars, swagger_spec, processed_endpoints, documents, resume, pos,
                   outcome, runs, fileVars, histVars>>

\* Lines 187-189: the final checkpoint save after the loop.
FinalSave ==
    /\ pc = "loop"
    /\ pos > Len(Endpoints(swagger_spec))
    /\ checkpoint_file' = Written(processed_endpoints)
    /\ pc' = "archive"
    /\ UNCHANGED <<cacheVars, cmdVars, swagger_spec, processed_endpoints, documents, resume, pos, outcome,
                   runs, milvus_vectorstore, log_files, histVars>>

\* Lines 194-209: the checkpoint file is renamed to a timestamped log file
\* (a failure of os.rename is a warning) and the documents are returned.
Archive ==
    /\ pc = "archive"
    /\ \E ok \in BOOLEAN :
         IF checkpoint_file.exists /\ ok
         THEN /\ log_files' = Append(log_files, checkpoint_file.text)
              /\ checkpoint_file' = NoCheckpoint
         ELSE UNCHANGED <<checkpoint_file, log_files>>
    /\ outcome' = "returned"
    /\ pc' = "idle"
    /\ UNCHANGED <<cacheVars, cmdVars, swagger_spec, processed_endpoints, documents, resume, pos, runs,
                   milvus_vectorstore, histVars>>

\* The process is interrupted while the run is between two file writes:
\* nothing more is executed, and the files stay as they are.
Interrupt ==
    /\ pc \notin {"idle"}
    /\ outcome' = "interrupted"
    /\ pc' = "idle"
    /\ UNCHANGED <<cacheVars, cmdVars, swagger_spec, processed_endpoints, documents, resume, pos, runs,
                   fileVars, histVars>>

\* The process is interrupted inside a write of the checkpoint file, after
\* open(checkpoint_file, 'w') truncated it.
InterruptWrite ==
    /\ \/ pc = "except"
       \/ pc = "checkpoint" /\ AtCheckpoint(processed_endpoints)
       \/ pc = "loop" /\ pos > Len(Endpoints(swagger_spec))
    /\ checkpoint_file' = Truncated
    /\ outcome' = "interrupted"
    /\ pc' = "idle"
    /\ UNCHANGED <<cacheVars, cmdVars, swagger_spec, processed_endpoints, documents, resume, pos, runs,
                   milvus_vectorstore, log_files, histVars>>

InitIngest ==
    /\ swagger_spec \in IngestDocuments
    /\ milvus_vectorstore = EmptyStore
    /\ checkpoint_file = NoCheckpoint
    /\ log_files = <<>>
    /\ processed_endpoints = EmptyLedger
    /\ documents = <<>>
    /\ resume = FALSE
    /\ pc = "idle"
    /\ pos = 1
    /\ outcome = "none"
    /\ runs = 0
    /\ loaded = {}
    /\ attempted = {}
    /\ upserted = {}
    /\ completed = {}
    /\ failure = ""
    /\ prev = [outcome |-> "none", targets |-> {}, stored |-> {},
               logs |-> 0, checkpoint |-> FALSE, corrupt |-> FALSE]
    /\ database = FALSE
    /\ command = NoCommand

NextIngest ==
    \/ \E r \in BOOLEAN : ingest_swagger(r)
    \/ NextEndpoint
    \/ Summarize
    \/ Build
    \/ Upsert
    \/ Record
    \/ PeriodicCheckpoint
    \/ Except
    \/ FinalSave
    \/ Archive
    \/ Interrupt
    \/ InterruptWrite

\* The ingestion runs; the cache is left alone.
Init == InitCache /\ InitIngest
Next == NextIngest
Spec == Init /\ [][Next]_vars

\* The cache and the differ; no ingestion runs.
InitCacheOnly ==
    /\ InitCache
    /\ InitIngest
    /\ swagger_spec = Document([s \in {} |-> {}])
SpecCache == InitCacheOnly /\ [][NextCache]_vars


(***************************************************************************)
(* The command create_database (main.py), which resolves the specification *)
(* at the URL, sets the store up and calls ingest_swagger.                 *)
(***************************************************************************)
\* Lines 109-133: ingestion_kwargs. A checkpoint option that names a file
\* sets resume and checkpoint_file; the second "if" then assigns resume again,
\* from the prompt when no option was given and the default file exists, and
\* to False in every other case.
IngestionKwargs(option, answer) ==
    LET first == IF option # None
                 THEN [resume |-> TRUE, checkpoint_file |-> option]
                 ELSE [k \in {} |-> {}]
    IN  IF option = None /\ checkpoint_file.exists
        THEN Put(first, "resume", answer)
        ELSE Put(first, "resume", FALSE)

\* os.path.exists(resume_from_checkpoint_file)
OptionExists(option) == option = DefaultCheckpoint /\ checkpoint_file.exists

\* Whether typer.confirm is reached (line 120).
Prompted(option) == option = None /\ checkpoint_file.exists

\* The command ends with an exception before the loop of ingest_swagger.
FailBeforeLoop(r, ledger) ==
    /\ runs' = runs + 1
    /\ resume' = r
    /\ processed_endpoints' = ledger
    /\ documents' = <<>>
    /\ pos' = 1
    /\ pc' = "idle"
    /\ outcome' = "failed"
    /\ loaded' = DOMAIN ledger
    /\ attempted' = {}
    /\ upserted' = {}
    /\ completed' = {}
    /\ failure' = ""
    /\ prev' = RunBefore

\* What the command notes of its arguments and of the state it starts in.
CommandRecord(resolution, option, answer, dropped) ==
    [resolution |-> resolution, option |-> option,
     prompted |-> dropped /\ Prompted(option),
     answer |-> dropped /\ Prompted(option) /\ answer,
     dropped |-> dropped,
     recorded |-> DOMAIN FileLedger(checkpoint_file),
     store |-> milvus_vectorstore, checkpoint |-> checkpoint_file,
     cache |-> cache_file]

\* create_database(swagger_url, ..., resume_from_checkpoint_file) up to the
\* loop of ingest_swagger. Lines 51-65 create the database; resolve_swagger
\* raises for a URL that cannot be fetched (line 100) and returns None for a
\* specification that is not valid or cannot be resolved; the store is set up
\* with drop_old=True (line 103), which drops the collection; a checkpoint
\* option that names no file raises (line 113); ingest_swagger is called with
\* ingestion_kwargs, and raises TypeError at swagger_spec["paths"] for None.
create_database(resolution, option, answer) ==
    /\ pc = "idle"
    /\ runs < MaxRuns
    /\ database' = TRUE
    /\ LET swagger_dict_is_None == resolution # "ok"
           kwargs == IngestionKwargs(option, answer)
       IN  IF resolution = "unreachable"
           THEN /\ command' = CommandRecord(resolution, option, answer, FALSE)
                /\ FailBeforeLoop(FALSE, EmptyLedger)
                /\ UNCHANGED milvus_vectorstore
           ELSE /\ command' = CommandRecord(resolution, option, answer, TRUE)
                /\ milvus_vectorstore' = EmptyStore
                /\ IF option # None /\ ~OptionExists(option)
                   THEN FailBeforeLoop(FALSE, EmptyLedger)
                   ELSE IF swagger_dict_is_None
                   THEN FailBeforeLoop(kwargs["resume"],
                                       IF kwargs["resume"]
                                       THEN FileLedger(checkpoint_file)
                                       ELSE EmptyLedger)
                   ELSE StartRun(kwargs["resume"])
    /\ UNCHANGED <<cacheVars, swagger_spec, checkpoint_file, log_files>>

\* cache_swagger raising inside json.dump (a value that is not serialisable),
\* or interrupted there: open(cache_file, 'w') has truncated the file and
\* the text is not written to its end.
cache_swagger_partial(spec) ==
    /\ pc = "idle"
    /\ cache_dir' = TRUE
    /\ cache_file' = [exists |-> TRUE, valid |-> FALSE, text |-> <<>>]
    /\ swagger_spec_dict' = spec
    /\ ret' = Ret("cache_swagger", "TypeError", FALSE, <<>>)
    /\ UNCHANGED <<cached_spec_dict, ingestVars>>

\* A caller of the command that caches the specification between two runs.
CacheBetweenRuns ==
    /\ pc = "idle"
    /\ cache_swagger(swagger_spec)

NextCommand ==
    \/ \E resolution \in Resolutions, option \in CheckpointOptions, answer \in BOOLEAN :
          create_database(resolution, option, answer)
    \/ NextEndpoint
    \/ Summarize
    \/ Build
    \/ Upsert
    \/ Record
    \/ PeriodicCheckpoint
    \/ Except
    \/ FinalSave
    \/ Archive
    \/ Interrupt
    \/ InterruptWrite
    \/ CacheBetweenRuns
    \/ cache_swagger_partial(swagger_spec)

\* The specifications the command is given: well formed, or with one
\* operation that has no description.
CommandDocuments ==
    {IngestDocument(n, bad, "description", FALSE) :
        n \in 0..MaxEndpoints, bad \in {0, 2}}

InitCommand ==
    /\ InitCache
    /\ InitIngest
    /\ swagger_spec \in CommandDocuments

\* The command, its runs, and the cache written between them.
SpecCommand == InitCommand /\ [][NextCommand]_vars

(***************************************************************************)
(* Properties of the cache and the differ, checked under SpecCache.        *)
(***************************************************************************)
DifferCalled == ret.fn = "get_updated_operationIDs_from_cache"
DifferReturned == DifferCalled /\ ret.raised = ""
CheckCalled == ret.fn = "check_against_cache"


\* The list holding the operationId of the operation at e, if it has one.
JustIdAt(doc, e) ==
    IF Truthy(OperationIdAt(doc, e)) THEN <<OperationIdAt(doc, e)>> ELSE <<>>

\* The (path, method) pairs both documents have, with different operations.
ChangedEndpoints(a, b) ==
    {e \in EndpointSet(a) \cap EndpointSet(b) : OperationAt(a, e) # OperationAt(b, e)}

\* C1: the differ applied to a document with a "paths" tree and a cache file
\* that holds this same document returns the empty list.
C1_NoSelfDiff ==
    (/\ DifferCalled
     /\ cache_file.exists
     /\ HasPaths(swagger_spec_dict)
     /\ cached_spec_dict = swagger_spec_dict)
    => (ret.raised = "" /\ ret.ids = <<>>)

C1_Witness ==
    /\ DifferReturned
    /\ cached_spec_dict = swagger_spec_dict
    /\ Cardinality(EndpointSet(swagger_spec_dict)) = 2
    /\ \E e \in EndpointSet(swagger_spec_dict) : Truthy(OperationIdAt(swagger_spec_dict, e))
    /\ ret.ids = <<>>

\* C2: with the cached document {}, the differ returns the operationIds of
\* all operations of the incoming document that have one (the empty list for
\* an incoming document without paths).
C2_EmptyCacheAllNew ==
    (/\ DifferCalled
     /\ cache_file.exists
     /\ cached_spec_dict = EmptyDict
     /\ HasPaths(swagger_spec_dict))
    => (/\ ret.raised = ""
        /\ SeqRange(ret.ids) =
             {OperationIdAt(swagger_spec_dict, e) : e \in
                {f \in EndpointSet(swagger_spec_dict) :
                    Truthy(OperationIdAt(swagger_spec_dict, f))}})

\* C3: when both documents have the same paths and methods and exactly one
\* operation differs, in a field other than operationId, the differ returns
\* exactly that operation's operationId.
C3_OnlyChangedOperation ==
    (/\ DifferCalled
     /\ cache_file.exists
     /\ HasPaths(swagger_spec_dict)
     /\ HasPaths(cached_spec_dict)
     /\ EndpointSet(swagger_spec_dict) = EndpointSet(cached_spec_dict)
     /\ Cardinality(ChangedEndpoints(swagger_spec_dict, cached_spec_dict)) = 1
     /\ \A e \in ChangedEndpoints(swagger_spec_dict, cached_spec_dict) :
            OperationIdAt(swagger_spec_dict, e) = OperationIdAt(cached_spec_dict, e))
    => (/\ ret.raised = ""
        /\ \A e \in ChangedEndpoints(swagger_spec_dict, cached_spec_dict) :
              ret.ids = JustIdAt(swagger_spec_dict, e))

C3_Witness ==
    /\ DifferReturned
    /\ EndpointSet(swagger_spec_dict) = EndpointSet(cached_spec_dict)
    /\ Cardinality(EndpointSet(swagger_spec_dict)) = 2
    /\ \E e \in EndpointSet(swagger_spec_dict) :
          /\ ChangedEndpoints(swagger_spec_dict, cached_spec_dict) = {e}
          /\ OperationIdAt(swagger_spec_dict, e) = "x"
          /\ OperationIdAt(cached_spec_dict, e) = "x"
          /\ \E f \in EndpointSet(swagger_spec_dict) \ {e} :
                OperationIdAt(swagger_spec_dict, f) = "y"
    /\ ret.ids = <<"x">>

\* C4: an operation with an operationId that the cached document has and the
\* incoming one has not (its path gone, or its method gone under a path that
\* stays) has its operationId in the differ's output.
C4_RemovedReported ==
    (/\ DifferCalled
     /\ cache_file.exists
     /\ HasPaths(swagger_spec_dict)
     /\ HasPaths(cached_spec_dict))
    => (/\ ret.raised = ""
        /\ \A e \in EndpointSet(cached_spec_dict) \ EndpointSet(swagger_spec_dict) :
              Truthy(OperationIdAt(cached_spec_dict, e))
                  => InList(OperationIdAt(cached_spec_dict, e), ret.ids))

\* A removed method under a path that stays, and no other change.
C4_Witness ==
    /\ DifferReturned
    /\ \E e \in EndpointSet(cached_spec_dict) \ EndpointSet(swagger_spec_dict) :
          /\ e[1] \in DOMAIN swagger_spec_dict["paths"]
          /\ OperationIdAt(cached_spec_dict, e) = "x"
          /\ ret.ids = <<"x">>

\* A removed path.
C4_WitnessPath ==
    /\ DifferReturned
    /\ HasPaths(swagger_spec_dict)
    /\ \E e \in EndpointSet(cached_spec_dict) :
          /\ e[1] \notin DOMAIN swagger_spec_dict["paths"]
          /\ OperationIdAt(cached_spec_dict, e) = "y"
          /\ InList("y", ret.ids)

\* C5: when the incoming document has one operation more than the cached one
\* (a new method under a path that exists, or a new path) and every other
\* operation equals its cached counterpart, the differ returns exactly the
\* added operation's operationId.
C5_OnlyAddedOperation ==
    (/\ DifferCalled
     /\ cache_file.exists
     /\ HasPaths(swagger_spec_dict)
     /\ HasPaths(cached_spec_dict)
     /\ EndpointSet(cached_spec_dict) \subseteq EndpointSet(swagger_spec_dict)
     /\ Cardinality(EndpointSet(swagger_spec_dict) \ EndpointSet(cached_spec_dict)) = 1
     /\ ChangedEndpoints(swagger_spec_dict, cached_spec_dict) = {})
    => (/\ ret.raised = ""
        /\ \A e \in EndpointSet(swagger_spec_dict) \ EndpointSet(cached_spec_dict) :
              ret.ids = JustIdAt(swagger_spec_dict, e))

\* A new method beside an unchanged one under the same path.
C5_Witness ==
    /\ DifferReturned
    /\ HasPaths(cached_spec_dict)
    /\ ChangedEndpoints(swagger_spec_dict, cached_spec_dict) = {}
    /\ \E e \in EndpointSet(swagger_spec_dict) \ EndpointSet(cached_spec_dict) :
          /\ EndpointSet(cached_spec_dict) = EndpointSet(swagger_spec_dict) \ {e}
          /\ \E f \in EndpointSet(cached_spec_dict) :
                f[1] = e[1] /\ OperationIdAt(cached_spec_dict, f) = "x"
          /\ OperationIdAt(swagger_spec_dict, e) = "y"
    /\ ret.ids = <<"y">>

\* C6: check_against_cache on the file cache_swagger wrote returns true for
\* the document written, and false for every other document.
C6_CacheRoundTrip ==
    (CheckCalled /\ cache_file.exists)
    => (/\ ret.raised = ""
        /\ ret.value = (swagger_spec_dict = cached_spec_dict))

C6_Witness ==
    /\ CheckCalled
    /\ cache_file.exists
    /\ swagger_spec_dict = cached_spec_dict
    /\ Cardinality(EndpointSet(swagger_spec_dict)) = 2
    /\ ret.value = TRUE

C6_WitnessDifferent ==
    /\ CheckCalled
    /\ cache_file.exists
    /\ Cardinality(ChangedEndpoints(swagger_spec_dict, cached_spec_dict)) = 1
    /\ ret.value = FALSE

\* C7: check_against_cache and the differ, called when the cache file does
\* not exist, raise the not-found error (ValueError) and return nothing, and
\* the file still does not exist afterwards; they raise it in no other case.
C7_NotFound ==
    (CheckCalled \/ DifferCalled)
    => (/\ ~cache_file.exists => (ret.raised = "ValueError" /\ ret.value = FALSE)
        /\ ret.raised = "ValueError" => (~cache_file.exists /\ ~cache_dir))

C7_Witness ==
    /\ DifferCalled
    /\ ~cache_file.exists
    /\ HasPaths(swagger_spec_dict)
    /\ ret.raised = "ValueError"

C7_WitnessCheck ==
    /\ CheckCalled
    /\ ~cache_file.exists
    /\ ret.raised = "ValueError"

(***************************************************************************)
(* Properties of the ingestion run, checked under Spec.                    *)
(***************************************************************************)
\* The keys with an entry in the checkpoint file on disk.
SavedKeys == DOMAIN FileLedger(checkpoint_file)

\* The run is inside the processing of one operation.
InOperation == pc \in {"summarize", "build", "upsert", "record", "checkpoint", "except"}

\* The run was started with resume on the checkpoint file a failed run left.
ResumedAfterFailure == resume /\ prev.outcome = "raised" /\ outcome # "none"

\* C8: a run with resume that follows a run which raised after storing k of
\* its n target operations enters the processing of none of those k, only of
\* the other n-k, and has stored exactly those n-k when it returns.
C8_ResumeProcessesRemaining ==
    ResumedAfterFailure
    => (/\ attempted \cap prev.stored = {}
        /\ upserted \subseteq attempted
        /\ attempted \subseteq prev.targets \ prev.stored
        /\ outcome = "returned" =>
              (/\ attempted = prev.targets \ prev.stored
               /\ upserted = prev.targets \ prev.stored))

\* 3 of 5, then 2.
C8_Witness ==
    /\ ResumedAfterFailure
    /\ Cardinality(prev.targets) = 5
    /\ Cardinality(prev.stored) = 3
    /\ outcome = "returned"
    /\ Cardinality(upserted) = 2

C9_WitnessSaved ==
    /\ InOperation
    /\ Cardinality(completed) >= 2
    /\ Cardinality(DOMAIN processed_endpoints) = CheckpointEvery
    /\ completed \subseteq SavedKeys

\* C10: when the run has raised for a failure of one operation, the
\* checkpoint file holds the run's ledger: every entry loaded on resume and
\* every entry recorded in the run.
C10_SavedBeforeRaise ==
    outcome = "raised"
    => (/\ checkpoint_file.exists
        /\ checkpoint_file.valid
        /\ FileLedger(checkpoint_file) = processed_endpoints
        /\ loaded \cup upserted \subseteq SavedKeys)

C10_Witness ==
    /\ outcome = "raised"
    /\ failure = "store"
    /\ loaded # {}
    /\ upserted # {}
    /\ ~AtCheckpoint(processed_endpoints)
    /\ SavedKeys = loaded \cup upserted

C10_WitnessSummarize ==
    outcome = "raised" /\ failure = "summarize" /\ upserted # {}

C10_WitnessField ==
    outcome = "raised" /\ failure = "field" /\ upserted # {}

(***************************************************************************)
(* Properties of the command, checked under SpecCommand.                   *)
(***************************************************************************)
\* What check_against_cache(spec, cache file) returns on a file it can read.
Matches(file, spec) == file.exists /\ file.valid /\ json_load(file.text) = spec

\* The command resolved the specification and its run was started.
RunOfCommand == command.resolution = "ok" /\ outcome # "failed"

\* C11: when the run of a command has returned, the cache file holds the
\* specification that was ingested: check_against_cache returns true for it.
C11_CacheHoldsIngested ==
    (RunOfCommand /\ outcome = "returned") => Matches(cache_file, swagger_spec)

\* C12: a run of the command that found a cached snapshot upserts only
\* operations whose operationId the differ reports for the specification
\* against that snapshot; none when the snapshot is the specification.
C12_OnlyChangedUpserted ==
    (RunOfCommand /\ command.cache.exists /\ command.cache.valid)
    => \A e \in EndpointSet(swagger_spec) :
          EndpointKey(e) \in upserted
              => InList(OperationIdAt(swagger_spec, e),
                        UpdatedOperationIDs(swagger_spec, json_load(command.cache.text)))

\* C13: the run of a command given a checkpoint-file option that names a
\* file, or that found the default checkpoint and was answered yes at the
\* prompt, resumes from that file: it enters the processing of no operation
\* whose key the file recorded.
C13_ResumeFromCheckpoint ==
    (/\ RunOfCommand
     /\ \/ command.option # None /\ command.checkpoint.exists
        \/ command.prompted /\ command.answer)
    => attempted \cap command.recorded = {}

\* C14: while a run is under way the cache file is the one the command found
\* (only a completed run changes it), and a cache file that exists holds a
\* whole document.
C14_SnapshotWholeAndStable ==
    /\ pc # "idle" => cache_file = command.cache
    /\ cache_file.exists => cache_file.valid

\* C15: a command whose specification is not resolved (URL not fetched,
\* specification not valid, references not resolved) leaves the store, the
\* checkpoint file, the log files and the cache file as they were.
C15_NoStateOnResolutionFailure ==
    [][(runs' # runs /\ command'.resolution # "ok")
          => UNCHANGED <<milvus_vectorstore, checkpoint_file, log_files, cache_file>>]_vars

(***************************************************************************)
(* Further properties of the ingestion run, checked under Spec, and of the *)
(* differ, checked under SpecCache.                                        *)
(***************************************************************************)
\* The keys of all operations of the specification.
AllKeys == {EndpointKey(e) : e \in EndpointSet(swagger_spec)}

\* The run was started with resume on a checkpoint file that exists and
\* cannot be parsed.
CorruptResume == resume /\ prev.corrupt /\ outcome \notin {"none", "failed"}

IdsOfChanges(spec, cached) ==
    {OperationIdAt(spec, e) :
        e \in (EndpointSet(spec) \ EndpointSet(cached)) \cup ChangedEndpoints(spec, cached)}
    \cup
    {OperationIdAt(cached, e) :
        e \in (EndpointSet(cached) \ EndpointSet(spec)) \cup ChangedEndpoints(spec, cached)}

\* C17: the differ's output holds the operationIds of the added, removed and
\* changed operations that have one, and nothing else: an operation without
\* operationId puts nothing there and keeps no other operation out.
C17_NoIdNothingReported ==
    (/\ DifferCalled
     /\ cache_file.exists
     /\ HasPaths(swagger_spec_dict)
     /\ HasPaths(cached_spec_dict))
    => (/\ ret.raised = ""
        /\ SeqRange(ret.ids) =
             {id \in IdsOfChanges(swagger_spec_dict, cached_spec_dict) : Truthy(id)})

\* An operation without operationId and one with "x", both changed.
C17_Witness ==
    /\ DifferReturned
    /\ \E e, f \in ChangedEndpoints(swagger_spec_dict, cached_spec_dict) :
          /\ OperationIdAt(swagger_spec_dict, e) = None
          /\ OperationIdAt(cached_spec_dict, e) = None
          /\ OperationIdAt(swagger_spec_dict, f) = "x"
    /\ ret.ids = <<"x">>

\* An operation without operationId added.
C17_WitnessAdded ==
    /\ DifferReturned
    /\ HasPaths(cached_spec_dict)
    /\ \E e \in EndpointSet(swagger_spec_dict) \ EndpointSet(cached_spec_dict) :
          OperationIdAt(swagger_spec_dict, e) = None
    /\ ret.ids = <<>>

\* C18: once an operation of a run has failed, the run is in its except
\* clause or over; no operation after the failed one is entered, stored or
\* recorded, the failed one is not stored, and when the run has raised the
\* checkpoint file exists and no log file was added.
C18_FailureStopsRun ==
    failure # ""
    => (/\ pc \in {"except", "idle"}
        /\ outcome \in {"running", "raised", "interrupted"}
        /\ CurrentKey \in attempted
        /\ CurrentKey \notin upserted \cup completed \cup DOMAIN processed_endpoints
        /\ \A i \in DOMAIN Endpoints(swagger_spec) :
              i > pos => EndpointKey(EndpointAt(i)) \notin
                            attempted \cup upserted \cup (DOMAIN processed_endpoints \ loaded)
        /\ Len(log_files) = prev.logs
        /\ outcome = "raised" => checkpoint_file.exists)

\* A failure in the middle: operations stored before it, operations after it.
C18_Witness ==
    /\ outcome = "raised"
    /\ failure = "store"
    /\ upserted # {}
    /\ pos < Len(Endpoints(swagger_spec))

\* The last log file.
LastLog == log_files[Len(log_files)]

\* C19: when the run has returned, either the checkpoint file is gone and a
\* new log file holds the run's whole ledger, with an entry for every
\* operation processed, or (the move failed) the checkpoint file holds it
\* and no log file was added.
C19_ArchivedOnCompletion ==
    outcome = "returned"
    => \/ /\ ~checkpoint_file.exists
          /\ Len(log_files) = prev.logs + 1
          /\ LoadLedger(LastLog) = processed_endpoints
          /\ loaded \cup upserted \subseteq DOMAIN LoadLedger(LastLog)
       \/ /\ checkpoint_file = Written(processed_endpoints)
          /\ Len(log_files) = prev.logs

C19_Witness ==
    /\ outcome = "returned"
    /\ ~checkpoint_file.exists
    /\ Len(log_files) = prev.logs + 1
    /\ Cardinality(upserted) >= 2
    /\ ~AtCheckpoint(processed_endpoints)
    /\ DOMAIN LoadLedger(LastLog) = upserted

C19_WitnessMoveFailed ==
    /\ outcome = "returned"
    /\ checkpoint_file.exists
    /\ upserted # {}

C20_WitnessRaised ==
    /\ outcome = "raised"
    /\ checkpoint_file.exists
    /\ AllKeys \ DOMAIN processed_endpoints # {}

\* C21: at every point of a run, each key the run has put in the ledger is
\* the key of an operation the store accepted in this run, and an operation
\* whose processing failed has no entry.
C21_EntryOnlyAfterStore ==
    /\ DOMAIN processed_endpoints \ loaded \subseteq upserted
    /\ failure # "" => CurrentKey \notin DOMAIN processed_endpoints

\* The store refused an operation after it had accepted two.
C21_Witness ==
    /\ failure = "store"
    /\ Cardinality(upserted) >= 2
    /\ DOMAIN processed_endpoints \ loaded = upserted

C23_OneRecordPerOperationId ==
    /\ \A id \in DOMAIN milvus_vectorstore :
          id = EndpointUuid(milvus_vectorstore[id].operationId)
    /\ \A a, b \in DOMAIN milvus_vectorstore :
          milvus_vectorstore[a].operationId = milvus_vectorstore[b].operationId => a = b

\* Two operations with one operationId stored, in a second run, as one record.
C23_Witness ==
    /\ runs = 2
    /\ Cardinality(upserted) >= 2
    /\ \E e, f \in EndpointSet(swagger_spec) :
          /\ e # f
          /\ {EndpointKey(e), EndpointKey(f)} \subseteq upserted
          /\ OperationIdAt(swagger_spec, e) = OperationIdAt(swagger_spec, f)
    /\ Cardinality(DOMAIN milvus_vectorstore) < Cardinality(upserted)

\* A list without repetition.
NoDuplicates(list) == \A i, j \in DOMAIN list : list[i] = list[j] => i = j

\* C24: the list the differ returns holds no operationId twice.
C24_OutputIsSet ==
    DifferReturned => NoDuplicates(ret.ids)

\* C25: for two documents with a "paths" tree, the differ returns the same
\* set of operationIds for (incoming A, cached B) as for (incoming B,
\* cached A).
C25_SymmetricAsSet ==
    (/\ DifferCalled
     /\ cache_file.exists
     /\ HasPaths(swagger_spec_dict)
     /\ HasPaths(cached_spec_dict))
    => (/\ ret.raised = ""
        /\ SeqRange(ret.ids) =
             SeqRange(UpdatedOperationIDs(cached_spec_dict, swagger_spec_dict)))

\* An operationId renamed in place: the new and the old one are returned.
C25_Witness ==
    /\ DifferReturned
    /\ \E e \in EndpointSet(swagger_spec_dict) \cap EndpointSet(cached_spec_dict) :
          /\ OperationIdAt(cached_spec_dict, e) = "x"
          /\ OperationIdAt(swagger_spec_dict, e) = "y"
    /\ ret.ids = <<"y", "x">>
    /\ UpdatedOperationIDs(cached_spec_dict, swagger_spec_dict) = <<"x", "y">>

\* C26: when a run of the command that resumed from the checkpoint has
\* returned, the store holds a record for every operation of the
\* specification that has a ledger entry.
C26_ResumedStoreComplete ==
    (RunOfCommand /\ resume /\ outcome = "returned")
    => \A e \in EndpointSet(swagger_spec) :
          EndpointKey(e) \in DOMAIN processed_endpoints
              => EndpointUuid(OperationIdAt(swagger_spec, e)) \in DOMAIN milvus_vectorstore

=============================================================================
